---------------------------- MODULE Spec2Model ----------------------------
(***************************************************************************)
(* AntiRef identity clustering (cluster.ipynb): the notebook's cells run   *)
(* top to bottom on a fresh data directory.                                *)
(*                                                                         *)
(*   make_mmseqs_db  -> the clustering loop over thresholds (linclust)     *)
(*   -> the cluster_dicts loading loop -> the manifest writer              *)
(*   -> the efficiency loop.                                               *)
(*                                                                         *)
(* The external commands (mmseqs, cut/sort/uniq, wc) are the environment:  *)
(* each shell chain either runs to the end or stops at its first failing   *)
(* sub-command ("&&"), leaving that sub-command's output absent or         *)
(* truncated and the later outputs absent.  An uncaught Python exception   *)
(* ends the run (pc = "crashed").                                          *)
(***************************************************************************)
EXTENDS Integers, Sequences, FiniteSets, TLC

(* ----------------------------- bounds ---------------------------------- *)
\* sequence identifiers are 1..NumIds
NumIds == 3
\* how many external commands may fail of their own accord in one run
\* (a command reading an absent or truncated database fails besides)
MaxFaults == 1
\* SpecLoad: the lines of the assignment table handed to the loading loop,
\* and the identifiers 1..LoadIds they name
MaxRecords == 3
LoadIds == 2
\* SpecSizes: the identifiers 1..SizeIds of the table that is summarised
SizeIds == 3

Ids == 1..NumIds

(* --------------------------- configuration ----------------------------- *)
thresholds == <<100, 99, 98, 96, 94, 92, 90>>

Levels == {thresholds[k] : k \in 1..Len(thresholds)}

\* f"antiref{threshold}"
antiref(threshold) ==
    CASE threshold = 100 -> "antiref100"
      [] threshold = 99  -> "antiref99"
      [] threshold = 98  -> "antiref98"
      [] threshold = 96  -> "antiref96"
      [] threshold = 94  -> "antiref94"
      [] threshold = 92  -> "antiref92"
      [] threshold = 90  -> "antiref90"

\* a path ./data/antiref/<dir>/<name><suffix> is the triple <<dir, name, suffix>>
init_db == <<"seqdb", "init", "">>

parent_lookup_skip(threshold) ==
    CASE threshold = 100 -> <<"seqdb", "init", "">>
      [] threshold = 99  -> <<"seqdb", "antiref100", "">>
      [] threshold = 98  -> <<"seqdb", "antiref99", "">>
      [] threshold = 96  -> <<"seqdb", "antiref99", "">>
      [] threshold = 94  -> <<"seqdb", "antiref96", "">>
      [] threshold = 92  -> <<"seqdb", "antiref94", "">>
      [] threshold = 90  -> <<"seqdb", "antiref92", "">>

parent_lookup(threshold) ==
    CASE threshold = 100 -> <<"seqdb", "init", "">>
      [] threshold = 99  -> <<"seqdb", "antiref100", "">>
      [] threshold = 98  -> <<"seqdb", "antiref99", "">>
      [] threshold = 96  -> <<"seqdb", "antiref98", "">>
      [] threshold = 94  -> <<"seqdb", "antiref96", "">>
      [] threshold = 92  -> <<"seqdb", "antiref94", "">>
      [] threshold = 90  -> <<"seqdb", "antiref92", "">>

\* linclust's output paths
cluster_db(threshold)    == <<"clusterdb", antiref(threshold), "">>
seq_db(threshold)        == <<"seqdb", antiref(threshold), "">>
seq_tsv(threshold)       == <<"tsv", antiref(threshold), ".tsv">>
cluster_sizes(threshold) == <<"tsv", antiref(threshold), "_cluster-sizes.csv">>
seq_fasta(threshold)     == <<"fasta", antiref(threshold), ".fasta">>

Paths ==
    {init_db} \cup UNION { {cluster_db(t), seq_db(t), seq_fasta(t),
                            seq_tsv(t), cluster_sizes(t)} : t \in Levels }

\* antiref100_count = None
None == -1

(* ------------------------------ files ---------------------------------- *)
\* a file: status "absent" | "partial" | "valid", and its lines
Absent        == [status |-> "absent",  data |-> <<>>]
Valid(data)   == [status |-> "valid",   data |-> data]
Partial(data) == [status |-> "partial", data |-> data]

Exists(file) == file.status # "absent"

SetMin(S) == CHOOSE x \in S : \A y \in S : x <= y

RECURSIVE SortedSeq(_)
\* the elements of a set of integers in ascending order
SortedSeq(S) ==
    IF S = {} THEN <<>>
    ELSE LET m == SetMin(S) IN <<m>> \o SortedSeq(S \ {m})

Range(s) == {s[k] : k \in 1..Len(s)}

StrictPrefixes(s) == {SubSeq(s, 1, n) : n \in 0..(Len(s) - 1)}

(* ----------------------- the external commands ------------------------- *)
\* what mmseqs linclust can answer on a parent holding the sequences P: every
\* member gets one representative, and a representative represents itself
Clusterings(P) == {f \in [P -> P] : \A x \in P : f[f[x]] = f[x]}

Image(f) == {f[x] : x \in DOMAIN f}

RECURSIVE MemberRecords(_, _)
\* the records <<representative, member>> of one cluster, members ascending
MemberRecords(rep, members) ==
    IF members = <<>> THEN <<>>
    ELSE <<<<rep, Head(members)>>>> \o MemberRecords(rep, Tail(members))

RECURSIVE ClusterRecords(_, _)
ClusterRecords(f, reps) ==
    IF reps = <<>> THEN <<>>
    ELSE MemberRecords(Head(reps),
                       SortedSeq({m \in DOMAIN f : f[m] = Head(reps)}))
         \o ClusterRecords(f, Tail(reps))

\* mmseqs createtsv: one record "representative member" per member of the
\* parent, cluster after cluster
createtsv(f) == ClusterRecords(f, SortedSeq(Image(f)))

\* cut -f 1
cut_f1(recs) == [k \in 1..Len(recs) |-> recs[k][1]]

RECURSIVE Insert(_, _)
Insert(x, s) ==
    IF s = <<>> THEN <<x>>
    ELSE IF x <= Head(s) THEN <<x>> \o s
    ELSE <<Head(s)>> \o Insert(x, Tail(s))

RECURSIVE sort(_)
sort(s) == IF s = <<>> THEN <<>> ELSE Insert(Head(s), sort(Tail(s)))

RECURSIVE uniq_c(_)
\* uniq -c: one row <<count, value>> per run of equal adjacent lines
uniq_c(s) ==
    IF s = <<>> THEN <<>>
    ELSE LET rest == uniq_c(Tail(s)) IN
         IF rest # <<>> /\ Head(rest)[2] = Head(s)
         THEN <<<<Head(rest)[1] + 1, Head(s)>>>> \o Tail(rest)
         ELSE <<<<1, Head(s)>>>> \o rest

\* the pipeline without its sort: cut -f 1 {seq_tsv} | uniq -c
size_summary_nosort(recs) == uniq_c(cut_f1(recs))

\* cut -f 1 {seq_tsv} | sort | uniq -c > {cluster_sizes}
size_summary(recs) == uniq_c(sort(cut_f1(recs)))

\* wc -l {size_path}: the line count, or nothing on stdout for a missing file
wc_l(file) == IF Exists(file) THEN <<Len(file.data)>> ELSE <<>>

\* The outcome of linclust's shell chain: the exit status, the sub-command
\* that failed (0: none) and the five files it leaves.
Outcome(exit, failed, cdb, sdb, fa, tsv, sizes, fault) ==
    [exit |-> exit, failed |-> failed, cdb |-> cdb, sdb |-> sdb, fa |-> fa,
     tsv |-> tsv, sizes |-> sizes, fault |-> fault]

ChainOk(f) ==
    LET reps == SortedSeq(Image(f))
        recs == createtsv(f)
    IN  Outcome(0, 0, Valid(<<>>), Valid(reps), Valid(reps), Valid(recs),
                Valid(size_summary(recs)), FALSE)

\* the chain stopped by the failure of sub-command 1..5
ChainFaults(P) ==
    LET Broken == {Absent, Partial(<<>>)} IN
    {Outcome(1, 1, Absent, Absent, Absent, Absent, Absent, TRUE)}
    \cup
    {Outcome(1, 2, Valid(<<>>), s, Absent, Absent, Absent, TRUE) : s \in Broken}
    \cup UNION {
      LET reps == SortedSeq(Image(f))
          recs == createtsv(f)
          sums == size_summary(recs)
      IN  {Outcome(1, 3, Valid(<<>>), Valid(reps), Absent, Absent, Absent, TRUE)}
          \cup
          {Outcome(1, 4, Valid(<<>>), Valid(reps), Valid(reps), t, Absent, TRUE) :
              t \in {Absent} \cup {Partial(p) : p \in StrictPrefixes(recs)}}
          \cup
          \* the last pipeline: its status is uniq's, so a failure of cut or
          \* sort leaves a truncated summary behind an exit status of 0
          {Outcome(e, 5, Valid(<<>>), Valid(reps), Valid(reps), Valid(recs), z, TRUE) :
              e \in {0, 1},
              z \in {Partial(p) : p \in StrictPrefixes(sums)}}
      : f \in Clusterings(P) }

\* mmseqs on a parent database that is absent or truncated fails at once
ChainNoParent == Outcome(1, 1, Absent, Absent, Absent, Absent, Absent, FALSE)

ChainOutcomes(parent, mayFault) ==
    IF parent.status # "valid" THEN {ChainNoParent}
    ELSE {ChainOk(f) : f \in Clusterings(Range(parent.data))}
         \cup (IF mayFault THEN ChainFaults(Range(parent.data)) ELSE {})

(* ------------------------------ state ---------------------------------- *)
VARIABLES
    pc,                \* the cell (loop) the notebook is in
    i,                 \* the running loop's position in its list
    fs,                \* the data directory: path -> file
    faults,            \* external commands that failed of their own accord
    proc,              \* the shell chain linclust is waiting for
    runs,              \* the linclust calls so far, in order
    cluster_dicts,     \* threshold -> dict (member -> representative)
    header,            \* the manifest's header row
    all_names,         \* the manifest writer's row keys
    manifest,          \* the manifest's data rows
    eff_data,          \* the efficiency records
    antiref100_count,  \* the baseline count, None until set
    divisions,         \* the operands of each count / antiref100_count
    error              \* the uncaught exception that ended the run

vars == <<pc, i, fs, faults, proc, runs, cluster_dicts, header, all_names,
          manifest, eff_data, antiref100_count, divisions, error>>

NoProc == [running |-> FALSE, threshold |-> 0, parent_db |-> <<>>]
NoError == [kind |-> "none", cell |-> "none", at |-> 0]

Raise(kind, cell, at) ==
    /\ pc' = "crashed"
    /\ error' = [kind |-> kind, cell |-> cell, at |-> at]

(* ------------------------- Python dictionaries -------------------------- *)
\* a dict is the sequence of its <<key, value>> items in insertion order
DictKeys(d) == [k \in 1..Len(d) |-> d[k][1]]
DictHas(d, key) == \E k \in 1..Len(d) : d[k][1] = key
DictGet(d, key) == d[CHOOSE k \in 1..Len(d) : d[k][1] = key][2]
\* d[key] = value: a new key goes last, a known key keeps its place
DictSet(d, key, value) ==
    IF DictHas(d, key)
    THEN [k \in 1..Len(d) |-> IF d[k][1] = key THEN <<key, value>> ELSE d[k]]
    ELSE Append(d, <<key, value>>)

(* --------------------------- make_mmseqs_db ----------------------------- *)
\* mmseqs createdb on the FASTA file of the sequences 1..n; its exit status
\* is not read
make_mmseqs_db ==
    /\ pc = "makedb"
    /\ \/ \E n \in 1..NumIds :
            /\ fs' = [fs EXCEPT ![init_db] = Valid(SortedSeq(1..n))]
            /\ UNCHANGED faults
       \/ /\ faults < MaxFaults
          /\ \E f \in {Absent, Partial(<<>>)} : fs' = [fs EXCEPT ![init_db] = f]
          /\ faults' = faults + 1
    /\ pc' = "cluster"
    /\ i' = 1
    /\ UNCHANGED <<proc, runs, cluster_dicts, header, all_names, manifest,
                   eff_data, antiref100_count, divisions, error>>

(* ------------------------------ linclust -------------------------------- *)
\* what linclust hands back once the chain has exited: it reads neither the
\* exit status nor the files
linclust_result(debug, exit) ==
    [raised |-> "none", ret |-> IF debug THEN "stdout_stderr" ELSE "None"]

\* the loop's call linclust(threshold=threshold, parent_db=parent_db), up to
\* sp.Popen
LinclustStart ==
    /\ pc = "cluster"
    /\ ~proc.running
    /\ i <= Len(thresholds)
    /\ LET threshold == thresholds[i]
           parent_db == parent_lookup(threshold)
       IN  /\ proc' = [running |-> TRUE, threshold |-> threshold,
                       parent_db |-> parent_db]
           /\ runs' = Append(runs,
                  [threshold |-> threshold, parent_db |-> parent_db,
                   parent |-> fs[parent_db].status, debug |-> FALSE,
                   state |-> "running", exit |-> None, failed |-> 0,
                   missing |-> FALSE, raised |-> "none", ret |-> "None"])
    /\ UNCHANGED <<pc, i, fs, faults, cluster_dicts, header, all_names,
                   manifest, eff_data, antiref100_count, divisions, error>>

\* p.communicate() returns: the chain has exited; linclust returns
LinclustExit ==
    /\ pc = "cluster"
    /\ proc.running
    /\ \E o \in ChainOutcomes(fs[proc.parent_db], faults < MaxFaults) :
        LET t == proc.threshold
            n == Len(runs)
        IN  /\ fs' = [fs EXCEPT ![cluster_db(t)] = o.cdb,
                                ![seq_db(t)] = o.sdb,
                                ![seq_fasta(t)] = o.fa,
                                ![seq_tsv(t)] = o.tsv,
                                ![cluster_sizes(t)] = o.sizes]
            /\ faults' = IF o.fault THEN faults + 1 ELSE faults
            /\ runs' = [runs EXCEPT ![n] =
                  [@ EXCEPT !.state = "exited",
                            !.exit = o.exit,
                            !.failed = o.failed,
                            !.missing =
                                "absent" \in {o.cdb.status, o.sdb.status,
                                              o.fa.status, o.tsv.status,
                                              o.sizes.status},
                            !.raised = linclust_result(runs[n].debug, o.exit).raised,
                            !.ret = linclust_result(runs[n].debug, o.exit).ret]]
    /\ proc' = NoProc
    /\ IF i = Len(thresholds)
       THEN pc' = "load" /\ i' = 1
       ELSE pc' = pc /\ i' = i + 1
    /\ UNCHANGED <<cluster_dicts, header, all_names, manifest, eff_data,
                   antiref100_count, divisions, error>>

(* ---------------------- the cluster_dicts loading loop ------------------ *)
RECURSIVE load_lines_swapped(_, _)
\* a loader that takes the first token for the member: d[l[0]] = l[1]
load_lines_swapped(d, lines) ==
    IF lines = <<>> THEN d
    ELSE LET l == Head(lines) IN
         IF l # <<>>
         THEN load_lines_swapped(DictSet(d, l[1], l[2]), Tail(lines))
         ELSE load_lines_swapped(d, Tail(lines))

RECURSIVE load_lines(_, _)
\* for line in f: if l := line.strip().split(): d[l[1]] = l[0]
\* (a line is the sequence of its tokens; Python's l[0], l[1] are l[1], l[2])
load_lines(d, lines) ==
    IF lines = <<>> THEN d
    ELSE LET l == Head(lines) IN
         IF l # <<>>
         THEN load_lines(DictSet(d, l[2], l[1]), Tail(lines))
         ELSE load_lines(d, Tail(lines))

\* one pass of "for threshold in pbar"
LoadStep ==
    /\ pc = "load"
    /\ i <= Len(thresholds)
    /\ LET threshold == thresholds[i]
           f == fs[seq_tsv(threshold)]
       IN  IF ~Exists(f)
           THEN /\ Raise("FileNotFoundError", "load", threshold)
                /\ UNCHANGED <<i, cluster_dicts>>
           ELSE /\ cluster_dicts' =
                       [t \in DOMAIN cluster_dicts \cup {threshold} |->
                           IF t = threshold THEN load_lines(<<>>, f.data)
                           ELSE cluster_dicts[t]]
                /\ IF i = Len(thresholds)
                   THEN pc' = "manifest_open" /\ i' = 1
                   ELSE pc' = pc /\ i' = i + 1
                /\ UNCHANGED error
    /\ UNCHANGED <<fs, faults, proc, runs, header, all_names, manifest,
                   eff_data, antiref100_count, divisions>>

(* -------------------------- the manifest writer ------------------------- *)
\* the levels the writer's hand-written chain c99 .. c90 looks up, in order
chain_levels == <<99, 98, 96, 94, 92, 90>>

RECURSIVE resolve(_, _, _)
\* c99 = cluster_dicts[99][c100]; c98 = cluster_dicts[98][c99]; ...
\* the row, or the level whose lookup raised KeyError
resolve(dicts, row, levels) ==
    IF levels = <<>> THEN [ok |-> TRUE, row |-> row, at |-> 0]
    ELSE LET d == dicts[Head(levels)]
             key == row[Len(row)]
         IN  IF DictHas(d, key)
             THEN resolve(dicts, Append(row, DictGet(d, key)), Tail(levels))
             ELSE [ok |-> FALSE, row |-> row, at |-> Head(levels)]

\* a writer that writes what it resolved when a lookup fails
manifest_row_partial(dicts, c100) ==
    LET r == resolve(dicts, <<c100>>, chain_levels)
    IN  [r EXCEPT !.ok = TRUE]

\* a writer that joins c100 where c90 belongs
manifest_row_c100(dicts, c100) ==
    LET r == resolve(dicts, <<c100>>, chain_levels)
    IN  IF r.ok THEN [r EXCEPT !.row = [@ EXCEPT ![Len(@)] = c100]] ELSE r

\* one row [c100, c99, c98, c96, c94, c92, c90]
manifest_row(dicts, c100) == resolve(dicts, <<c100>>, chain_levels)

\* with open(manifest_csv, 'w'): the header, and the row keys
ManifestOpen ==
    /\ pc = "manifest_open"
    /\ header' = [k \in 1..Len(thresholds) |-> antiref(thresholds[k])]
    /\ all_names' = DictKeys(cluster_dicts[99])
    /\ manifest' = <<>>
    /\ i' = 1
    /\ pc' = IF all_names' = <<>> THEN "eff" ELSE "manifest"
    /\ UNCHANGED <<fs, faults, proc, runs, cluster_dicts, eff_data,
                   antiref100_count, divisions, error>>

\* one pass of "for c100 in tqdm(all_names)"
ManifestRowStep ==
    /\ pc = "manifest"
    /\ i <= Len(all_names)
    /\ LET r == manifest_row(cluster_dicts, all_names[i])
       IN  IF r.ok
           THEN /\ manifest' = Append(manifest, r.row)
                /\ IF i = Len(all_names)
                   THEN pc' = "eff" /\ i' = 1
                   ELSE pc' = pc /\ i' = i + 1
                /\ UNCHANGED error
           ELSE /\ Raise("KeyError", "manifest", r.at)
                /\ UNCHANGED <<i, manifest>>
    /\ UNCHANGED <<fs, faults, proc, runs, cluster_dicts, header, all_names,
                   eff_data, antiref100_count, divisions>>

(* --------------------------- the efficiency loop ------------------------ *)
\* one pass of "for threshold in pbar"
EffStep ==
    /\ pc = "eff"
    /\ i <= Len(thresholds)
    /\ LET threshold == thresholds[i]
           stdout == wc_l(fs[cluster_sizes(threshold)])
       IN  IF stdout = <<>>
           THEN \* int(stdout.decode('utf-8').split()[0]) on empty output
                /\ Raise("IndexError", "eff", threshold)
                /\ UNCHANGED <<i, eff_data, antiref100_count, divisions>>
           ELSE LET count == stdout[1]
                    base == IF threshold = 100 THEN count ELSE antiref100_count
                IN  /\ antiref100_count' = base
                    /\ divisions' = Append(divisions, <<count, base>>)
                    /\ IF base = None
                       THEN /\ Raise("TypeError", "eff", threshold)
                            /\ UNCHANGED <<i, eff_data>>
                       ELSE IF base = 0
                       THEN /\ Raise("ZeroDivisionError", "eff", threshold)
                            /\ UNCHANGED <<i, eff_data>>
                       ELSE /\ eff_data' = Append(eff_data,
                                   [clustering_identity |-> threshold,
                                    clusters |-> count,
                                    efficiency |-> <<count, base>>])
                            /\ IF i = Len(thresholds)
                               THEN pc' = "done" /\ i' = 1
                               ELSE pc' = pc /\ i' = i + 1
                            /\ UNCHANGED error
    /\ UNCHANGED <<fs, faults, proc, runs, cluster_dicts, header, all_names,
                   manifest>>

(* --------------------------- specifications ----------------------------- *)
Init ==
    /\ pc = "makedb"
    /\ i = 1
    /\ fs = [p \in Paths |-> Absent]
    /\ faults = 0
    /\ proc = NoProc
    /\ runs = <<>>
    /\ cluster_dicts = <<>>
    /\ header = <<>>
    /\ all_names = <<>>
    /\ manifest = <<>>
    /\ eff_data = <<>>
    /\ antiref100_count = None
    /\ divisions = <<>>
    /\ error = NoError

Next ==
    \/ make_mmseqs_db
    \/ LinclustStart
    \/ LinclustExit
    \/ LoadStep
    \/ ManifestOpen
    \/ ManifestRowStep
    \/ EffStep

Spec == Init /\ [][Next]_vars

\* The loading loop on a data directory it did not write: one level's
\* assignment table is any table of at most MaxRecords lines (a line: blank,
\* or "representative member"), the others are empty.
Lines == {<<>>} \cup ((1..LoadIds) \X (1..LoadIds))
Tables == UNION {[1..n -> Lines] : n \in 0..MaxRecords}

InitLoad ==
    /\ pc = "load"
    /\ i = 1
    /\ \E t \in Levels : \E table \in Tables :
          fs = [p \in Paths |->
                  IF p = seq_tsv(t) THEN Valid(table)
                  ELSE IF p \in {seq_tsv(u) : u \in Levels} THEN Valid(<<>>)
                  ELSE Absent]
    /\ faults = 0
    /\ proc = NoProc
    /\ runs = <<>>
    /\ cluster_dicts = <<>>
    /\ header = <<>>
    /\ all_names = <<>>
    /\ manifest = <<>>
    /\ eff_data = <<>>
    /\ antiref100_count = None
    /\ divisions = <<>>
    /\ error = NoError

NextLoad == LoadStep

SpecLoad == InitLoad /\ [][NextLoad]_vars

\* The chain's last pipeline and the efficiency loop on assignment tables
\* written beforehand: one level's table is any table of at most MaxRecords
\* records that names each member once, in any order; every other level's
\* table is the single record "1 1".
AssignmentTables ==
    {table \in UNION {[1..n -> (1..SizeIds) \X (1..SizeIds)] :
                         n \in 0..MaxRecords} :
        \A j, k \in 1..Len(table) : j # k => table[j][2] # table[k][2]}

\* cut -f 1 {seq_tsv} | sort | uniq -c > {cluster_sizes}, for one level
SummarizeStep ==
    /\ pc = "sizes"
    /\ i <= Len(thresholds)
    /\ LET threshold == thresholds[i] IN
          fs' = [fs EXCEPT ![cluster_sizes(threshold)] =
                    Valid(size_summary(fs[seq_tsv(threshold)].data))]
    /\ IF i = Len(thresholds)
       THEN pc' = "eff" /\ i' = 1
       ELSE pc' = pc /\ i' = i + 1
    /\ UNCHANGED <<faults, proc, runs, cluster_dicts, header, all_names,
                   manifest, eff_data, antiref100_count, divisions, error>>

InitSizes ==
    /\ pc = "sizes"
    /\ i = 1
    /\ \E t \in Levels : \E table \in AssignmentTables :
          fs = [p \in Paths |->
                  IF p = seq_tsv(t) THEN Valid(table)
                  ELSE IF p \in {seq_tsv(u) : u \in Levels}
                       THEN Valid(<<<<1, 1>>>>)
                  ELSE Absent]
    /\ faults = 0
    /\ proc = NoProc
    /\ runs = <<>>
    /\ cluster_dicts = <<>>
    /\ header = <<>>
    /\ all_names = <<>>
    /\ manifest = <<>>
    /\ eff_data = <<>>
    /\ antiref100_count = None
    /\ divisions = <<>>
    /\ error = NoError

NextSizes == SummarizeStep \/ EffStep

SpecSizes == InitSizes /\ [][NextSizes]_vars

(* ------------------------------- claims --------------------------------- *)
Exited(k) == runs[k].state = "exited"

\* C1 (fail-fast): once the step of some level has exited non-zero, no step
\* of a later level is started, no later cell runs, and the run ends in a
\* failure that names that level.
C1_FailFast ==
    \A k \in 1..Len(runs) :
        (Exited(k) /\ runs[k].exit # 0) =>
            /\ k = Len(runs)
            /\ pc \in {"cluster", "crashed"}
            /\ pc = "crashed" =>
                  /\ error.kind = "ClusteringToolError"
                  /\ error.at = runs[k].threshold

\* C2 (sequential dependency): every step after the first was started on a
\* parent database that existed whole and whose producing step, the one just
\* before it, had exited successfully.
C2_ParentValid ==
    \A k \in 2..Len(runs) :
        /\ runs[k].parent = "valid"
        /\ runs[k - 1].exit = 0

\* C3 (step failure is an error): a linclust call whose chain exited non-zero
\* or left one of its five files missing ended in ClusteringToolError, not in
\* a normal return.
C3_StepFailureIsError ==
    \A k \in 1..Len(runs) :
        (Exited(k) /\ (runs[k].exit # 0 \/ runs[k].missing)) =>
            runs[k].raised = "ClusteringToolError"

Members(lines) == {lines[k][2] : k \in {j \in 1..Len(lines) : lines[j] # <<>>}}

HasDuplicateMember(lines) ==
    \E j, k \in 1..Len(lines) :
        j < k /\ lines[j] # <<>> /\ lines[k] # <<>> /\ lines[j][2] = lines[k][2]

\* C4 (duplicate member detection): a table in which one member occurs in two
\* records is never loaded into cluster_dicts (its load ends in an error),
\* and no loaded dict holds for a member another representative than that of
\* the member's first record.
C4_DuplicateDetected ==
    \A t \in DOMAIN cluster_dicts :
        LET lines == fs[seq_tsv(t)].data IN
        /\ ~HasDuplicateMember(lines)
        /\ \A k \in 1..Len(lines) :
              (lines[k] # <<>> /\ ~\E j \in 1..(k - 1) :
                    lines[j] # <<>> /\ lines[j][2] = lines[k][2])
              => DictGet(cluster_dicts[t], lines[k][2]) = lines[k][1]

ManifestWritten == pc \in {"eff", "done"} \/ error.cell = "eff"

AllTablesValid == \A t \in Levels : fs[seq_tsv(t)].status = "valid"

\* C6 (one row per base identifier): a manifest written after a run in which
\* no command failed (every assignment table whole) has exactly one row for
\* each member of the level-100 table.
C6_OneRowPerBaseId ==
    (ManifestWritten /\ faults = 0 /\ AllTablesValid) =>
        \A m \in Members(fs[seq_tsv(100)].data) :
            Cardinality({r \in 1..Len(manifest) : manifest[r][1] = m}) = 1

\* C7 (monotonic collapse): two manifest rows with the same entry in one
\* column have the same entry in every column to its right.
C7_MonotonicCollapse ==
    \A r1, r2 \in 1..Len(manifest) :
        \A c \in 1..Len(manifest[r1]) :
            (c <= Len(manifest[r2]) /\ manifest[r1][c] = manifest[r2][c]) =>
                \A e \in c..Len(manifest[r1]) :
                    e <= Len(manifest[r2]) /\ manifest[r1][e] = manifest[r2][e]

\* C7's case: two rows that differ in an early column, meet in a later one and
\* a third row that never meets them
C7_Witness ==
    /\ ManifestWritten
    /\ \E r1, r2, r3 \in 1..Len(manifest) :
          /\ manifest[r1][1] # manifest[r2][1]
          /\ manifest[r1][2] # manifest[r2][2]
          /\ manifest[r1][4] = manifest[r2][4]
          /\ manifest[r3][7] # manifest[r1][7]

\* C8 (ratio bounds): every efficiency record has 0 < clusters <= the baseline
\* count it was divided by, and the record of level 100 has ratio exactly 1.
C8_RatioBounds ==
    \A k \in 1..Len(eff_data) :
        LET e == eff_data[k] IN
        /\ 0 < e.efficiency[1]
        /\ e.efficiency[1] <= e.efficiency[2]
        /\ e.clustering_identity = 100 => e.efficiency[1] = e.efficiency[2]

\* C9 (baseline before ratios): no division count / antiref100_count is
\* evaluated while antiref100_count is None or zero, and a first efficiency
\* record exists only with antiref100_count set and non-zero.
C9_BaselineBeforeRatios ==
    /\ \A k \in 1..Len(divisions) :
          divisions[k][2] # None /\ divisions[k][2] # 0
    /\ eff_data # <<>> => (antiref100_count # None /\ antiref100_count # 0)

\* C10 (parent wiring and order): the linclust calls are those of the
\* thresholds list, in its order and one each; a call starts only when every
\* earlier call's chain has exited; the first call's parent is the initial
\* database, every other call's parent is the seq_db path of the call before
\* it; and past the loop there is one call per threshold.
C10_ParentWiring ==
    /\ Len(runs) <= Len(thresholds)
    /\ \A k \in 1..Len(runs) :
          /\ runs[k].threshold = thresholds[k]
          /\ runs[k].parent_db =
                IF k = 1 THEN init_db ELSE seq_db(runs[k - 1].threshold)
          /\ k < Len(runs) => Exited(k)
          /\ k = Len(runs) => (proc.running <=> ~Exited(k))
    /\ runs = <<>> => ~proc.running
    /\ pc \notin {"makedb", "cluster"} =>
          /\ Len(runs) = Len(thresholds)
          /\ \A k \in 1..Len(runs) : Exited(k)

\* C10's case: the loop has run all seven steps, each on the database the
\* step before it wrote
C10_Witness ==
    /\ pc = "load"
    /\ Len(runs) = Len(thresholds)
    /\ \A k \in 2..Len(runs) :
          /\ runs[k].parent = "valid"
          /\ fs[runs[k].parent_db].status = "valid"
          /\ runs[k].exit = 0

Representatives(recs) == {recs[k][1] : k \in 1..Len(recs)}
MembersOf(recs, rep) == {recs[k][2] : k \in {j \in 1..Len(recs) : recs[j][1] = rep}}

ExampleClustering(threshold) ==
    CASE threshold = 100 -> [m \in 1..5 |-> m]
      [] threshold = 99  -> [m \in 1..5 |-> IF m = 2 THEN 1 ELSE m]
      [] threshold = 90  -> [m \in {1, 3, 4, 5} |-> IF m = 1 THEN 3 ELSE m]
      [] OTHER           -> [m \in {1, 3, 4, 5} |-> m]

\* the example's assignment tables, loaded as the loading loop loads them
ExampleDicts ==
    [t \in Levels |-> load_lines(<<>>, createtsv(ExampleClustering(t)))]

\* the rows the manifest writer gives for the example
ExampleManifest ==
    LET names == DictKeys(ExampleDicts[99])
    IN  [k \in 1..Len(names) |-> manifest_row(ExampleDicts, names[k])]

ColumnLevel(c) == thresholds[c]

\* C12 (chain resolution): a loaded dict maps the member (second token) of
\* every record of its table to that record's representative (first token)
\* and has no other key; in every manifest row each entry after the first is
\* the representative that the column's table gives to the entry before it
\* as member; and on the documented example the writer's rows are the
\* documented table, the row of id_02 being id_02, id_01 x 5, id_03.
C12_ChainResolution ==
    /\ \A t \in DOMAIN cluster_dicts :
          LET lines == fs[seq_tsv(t)].data
              d == cluster_dicts[t]
          IN  /\ Range(DictKeys(d)) = Members(lines)
              /\ \A k \in 1..Len(lines) :
                    lines[k] # <<>> => DictGet(d, lines[k][2]) = lines[k][1]
    /\ \A r \in 1..Len(manifest) :
          \A c \in 2..Len(manifest[r]) :
              \E k \in 1..Len(fs[seq_tsv(ColumnLevel(c))].data) :
                  LET l == fs[seq_tsv(ColumnLevel(c))].data[k] IN
                  l[2] = manifest[r][c - 1] /\ l[1] = manifest[r][c]
    /\ ExampleManifest =
          << [ok |-> TRUE, at |-> 0, row |-> <<1, 1, 1, 1, 1, 1, 3>>],
             [ok |-> TRUE, at |-> 0, row |-> <<2, 1, 1, 1, 1, 1, 3>>],
             [ok |-> TRUE, at |-> 0, row |-> <<3, 3, 3, 3, 3, 3, 3>>],
             [ok |-> TRUE, at |-> 0, row |-> <<4, 4, 4, 4, 4, 4, 4>>],
             [ok |-> TRUE, at |-> 0, row |-> <<5, 5, 5, 5, 5, 5, 5>>] >>

\* C12's case: a run has written the example's rows of id_01, id_02, id_03
C12_Witness ==
    /\ ManifestWritten
    /\ manifest = << <<1, 1, 1, 1, 1, 1, 3>>,
                     <<2, 1, 1, 1, 1, 1, 3>>,
                     <<3, 3, 3, 3, 3, 3, 3>> >>

=============================================================================
